---- MODULE Spec2Model ----
(***************************************************************************)
(* Model of the language-school admin bot (src/unnamed/part_000 and the    *)
(* earlier draft src/bot.js): the in-memory session state                  *)
(* (authorizedUsers, chatMessages), the Telegram event handlers, the       *)
(* Supabase notification endpoints, and the gateway / record-source calls  *)
(* that are in flight between two awaits of a handler.                     *)
(*                                                                         *)
(* JavaScript runs a handler without interruption up to its next await, so *)
(* every action below is one such run-to-await segment.  Strings are       *)
(* sequences of tokens; a token is a TLA+ string.                          *)
(***************************************************************************)
EXTENDS Integers, Sequences, FiniteSets, TLC

\* ---------------------------------------------------------------- bounds
NumChats == 3
MaxEvents == 2
MaxSeqEvents == 3
MaxLiveEvents == 2

\* ---------------------------------------------------- program constants
adminChatId == 1
secretPassword == <<"pw">>

Chats == 1..NumChats

Variants == {"part_000", "bot_js"}

VARIABLES
    variant,          \* which of the two programs of the repository runs
    authorizedUsers,  \* Set of chat ids
    chatMessages,     \* Map chat id -> sequence of message ids
    events,           \* inbound events (updates and webhook posts), in arrival order
    handlers,         \* sequence of handler invocations, in dispatch order
    sending,          \* gateway sendMessage calls in flight
    deleting,         \* gateway deleteMessage calls in flight
    delivered,        \* messages the gateway accepted; the index is message_id
    visible,          \* message ids the gateway has delivered and not deleted
    deleteLog         \* every deleteMessage request issued: [h, id]

vars == <<variant, authorizedUsers, chatMessages, events, handlers, sending,
          deleting, delivered, visible, deleteLog>>

\* ------------------------------------------------------------- strings
Range(s) == {s[i] : i \in 1..Len(s)}

RECURSIVE TrimStart(_)
TrimStart(s) ==
    IF s # <<>> /\ Head(s) = " " THEN TrimStart(Tail(s)) ELSE s

RECURSIVE TrimEnd(_)
TrimEnd(s) ==
    IF s # <<>> /\ s[Len(s)] = " " THEN TrimEnd(SubSeq(s, 1, Len(s) - 1)) ELSE s

Trim_startOnly(s) == TrimStart(s)

\* String.prototype.trim
Trim(s) == TrimEnd(TrimStart(s))

\* msg.text.startsWith('/start'); an absent text is the empty sequence
StartsWithStart(text) == text # <<>> /\ text[1] = "/start"

\* /\/start(.*)/ matches anywhere in the text
RegexMatches(text) == \E i \in 1..Len(text) : text[i] = "/start"

\* match[1]: everything after the leftmost "/start"
Match1(text) ==
    LET i == CHOOSE k \in 1..Len(text) :
                 /\ text[k] = "/start"
                 /\ \A j \in 1..(k - 1) : text[j] # "/start"
    IN  SubSeq(text, i + 1, Len(text))

\* data.split('_')
RECURSIVE Split(_)
Split(data) ==
    IF \E i \in 1..Len(data) : data[i] = "_"
    THEN LET i == CHOOSE k \in 1..Len(data) :
                      /\ data[k] = "_"
                      /\ \A j \in 1..(k - 1) : data[j] # "_"
         IN  <<SubSeq(data, 1, i - 1)>> \o Split(SubSeq(data, i + 1, Len(data)))
    ELSE <<data>>

\* const [action, type, id] = data.split('_'); a missing part is undefined
Undefined == <<"undefined">>
Part(data, n) == IF Len(Split(data)) >= n THEN Split(data)[n] ELSE Undefined

\* ------------------------------------------------------- message texts
BTN_ALL == <<"Pokazaty vse">>
BTN_APPS == <<"Pokazaty zayavky na urok">>
BTN_CBS == <<"Pokazaty zapyty na dzvinok">>

MSG_USAGE == <<"usage">>
MSG_AUTH_OK == <<"authOk">>
MSG_WRONG_PW == <<"wrongPassword">>
MSG_PLEASE_AUTH == <<"pleaseAuthorize">>
MSG_USE_BUTTONS == <<"useButtons">>
MSG_APPS_EMPTY == <<"appsEmpty">>
MSG_APPS_ERROR == <<"appsError">>
MSG_APPS_TABLE == <<"appsTable", "id", "firstName", "lastName", "contact">>
MSG_SEPARATOR == <<"---">>
MSG_CBS_EMPTY == <<"cbsEmpty">>
MSG_CBS_ERROR == <<"cbsError">>
MSG_CBS_TABLE == <<"cbsTable", "id", "phone">>
MSG_NOT_FOUND == <<"notFound">>
MSG_NOT_AUTHORIZED == <<"notAuthorized">>
COPY_HEADER == <<"<code>", "copyHeader">>
COPY_FOOTER == <<"</code>">>
APP_FIELDS == <<"firstName", "lastName", "email", "phone", "lessonFormat">>
CB_FIELDS == <<"phone">>
MSG_NOTIFY_APP == <<"newApplication", "firstName", "lastName", "contact", "lessonFormat">>
MSG_NOTIFY_CB == <<"newCallback", "phone">>

RecordFieldTokens ==
    {"id", "firstName", "lastName", "email", "phone", "contact", "lessonFormat"}

CarriesRecordFields(text) == Range(text) \cap RecordFieldTokens # {}

\* ------------------------------------------------------------- inputs
Texts ==
    { <<>>,                          \* a message without text
      <<"/start">>,
      <<"/start", " ", "pw">>,
      <<"/start", " ", "pw", "x">>,
      <<"hi", " ", "/start", " ", "pw", " ">>,
      <<"hi">>,
      BTN_ALL, BTN_APPS, BTN_CBS }

CallbackData ==
    { <<"copy", "_", "app", "_", "1">>,
      <<"copy", "_", "cb", "_", "1">>,
      <<"copy", "_", "zzz", "_", "1">>,
      <<"noop">> }

Bodies == {"{}", "{record}"}

\* the inputs of the sequential runs
SeqTexts == { <<"/start", " ", "pw">>, <<"hi">>, BTN_CBS }

SeqData == { <<"copy", "_", "app", "_", "1">> }

QueryOutcomes == {"rows", "empty", "error"}

\* ---------------------------------------------------------- structure
HasMessageHandler == variant = "part_000"
SupabaseDefined == variant = "part_000"

isAuthorized_open(chatId) == TRUE

\* const isAuthorized = (chatId) => authorizedUsers.has(chatId)
isAuthorized(chatId) == chatId \in authorizedUsers

\* chatMessages.get(chatId); undefined and [] behave alike in every use
MapGet(chatId) ==
    IF chatId \in DOMAIN chatMessages THEN chatMessages[chatId] ELSE <<>>

MapSet(map, chatId, ids) ==
    [c \in (DOMAIN map) \cup {chatId} |-> IF c = chatId THEN ids ELSE map[c]]

Cleared_keepFailed(map, chatId, ids) ==
    MapSet(map, chatId, SelectSeq(ids, LAMBDA id : id \in visible))

\* clearPreviousMessages, its last statement: chatMessages.set(chatId, [])
Cleared(map, chatId, ids) == MapSet(map, chatId, <<>>)

\* One invocation of a listener, as it stands at its first suspension.
NewHandler(kind, chatId, text, pc) ==
    [ kind |-> kind, chatId |-> chatId, text |-> text, pc |-> pc,
      event |-> Len(events) + 1,
      authorized |-> isAuthorized(chatId),
      messageIds |-> MapGet(chatId),
      out |-> <<>>, sentTo |-> {}, queries |-> <<>>, replies |-> <<>>,
      status |-> 0,
      unhandledRejection |-> FALSE ]

NewEvent(type, chatId, text) ==
    [ type |-> type, chatId |-> chatId, text |-> text,
      audience |-> authorizedUsers ]

\* A handler record after it has called sendMessage with `text`.
WithSend(hr, text, pc) ==
    [hr EXCEPT !.out = Append(@, text), !.sentTo = @ \cup {hr.chatId}, !.pc = pc]

\* The sendMessage call in flight that WithSend(hr, text, _) issued.
SendCall(h, hr, text, tracked) ==
    [ h |-> h, n |-> Len(hr.out) + 1, chatId |-> hr.chatId, text |-> text,
      tracked |-> tracked ]

DeleteCalls_skipFirst(h, ids) == {[h |-> h, id |-> ids[i]] : i \in 2..Len(ids)}

\* The deleteMessage calls clearPreviousMessages issues for handler h.
DeleteCalls(h, ids) == {[h |-> h, id |-> ids[i]] : i \in 1..Len(ids)}

Init_noAdmin ==
    /\ variant \in Variants
    /\ authorizedUsers = {}
    /\ chatMessages = <<>>
    /\ events = <<>>
    /\ handlers = <<>>
    /\ sending = {}
    /\ deleting = {}
    /\ delivered = <<>>
    /\ visible = {}
    /\ deleteLog = {}

Init ==
    /\ variant \in Variants
    /\ authorizedUsers = {adminChatId}
    /\ chatMessages = <<>>
    /\ events = <<>>
    /\ handlers = <<>>
    /\ sending = {}
    /\ deleting = {}
    /\ delivered = <<>>
    /\ visible = {}
    /\ deleteLog = {}

\* ------------------------------------------- handlers after the clear

\* What a handler does from one await to the next: its record afterwards,
\* the sendMessage calls it issues, and the chats it adds to authorizedUsers.

StartContinue_anyPassword(h, hr) ==
    LET password == Trim(Match1(hr.text))
        reply == IF password = <<>> THEN MSG_USAGE
                 ELSE IF password = secretPassword THEN MSG_AUTH_OK
                 ELSE MSG_WRONG_PW
    IN  [ hr |-> WithSend(hr, reply,
                     IF password = <<>> THEN "await_return" ELSE "done"),
          calls |-> {SendCall(h, hr, reply, TRUE)},
          add |-> IF password # <<>> THEN {hr.chatId} ELSE {} ]

\* bot.onText(/\/start(.*)/): the rest of the handler after the clear.
StartContinue(h, hr) ==
    LET password == Trim(Match1(hr.text))
        reply == IF password = <<>> THEN MSG_USAGE
                 ELSE IF password = secretPassword THEN MSG_AUTH_OK
                 ELSE MSG_WRONG_PW
    IN  [ hr |-> WithSend(hr, reply,
                     IF password = <<>> THEN "await_return" ELSE "done"),
          calls |-> {SendCall(h, hr, reply, TRUE)},
          add |-> IF password # <<>> /\ password = secretPassword
                  THEN {hr.chatId} ELSE {} ]

\* bot.on('message'): the rest of the handler after the clear, up to the
\* next await (the axios.get of showApplications / showCallbacks) or the end.
\* isAuthorized was read before the clear.
MessageContinue(h, hr) ==
    LET query(coll) == [coll |-> coll, id |-> <<>>]
    IN  IF ~hr.authorized
        THEN [ hr |-> WithSend(hr, MSG_PLEASE_AUTH, "await_return"),
               calls |-> {SendCall(h, hr, MSG_PLEASE_AUTH, TRUE)}, add |-> {} ]
        ELSE IF hr.text \in {BTN_ALL, BTN_APPS}
        THEN [ hr |-> [hr EXCEPT !.pc = "appsQuery",
                                 !.queries = Append(@, query("Applications"))],
               calls |-> {}, add |-> {} ]
        ELSE IF hr.text = BTN_CBS
        THEN [ hr |-> [hr EXCEPT !.pc = "cbsQuery",
                                 !.queries = Append(@, query("CallBacks"))],
               calls |-> {}, add |-> {} ]
        ELSE [ hr |-> WithSend(hr, MSG_USE_BUTTONS, "done"),
               calls |-> {SendCall(h, hr, MSG_USE_BUTTONS, TRUE)}, add |-> {} ]

Continue(h, hr) ==
    IF hr.kind = "onText" THEN StartContinue(h, hr) ELSE MessageContinue(h, hr)

\* ------------------------------------------------------ inbound events

\* processUpdate for a message: emit('message') first, then the onText
\* callbacks whose regexp matches.  The message listener returns at once for
\* a /start text, otherwise reads isAuthorized and enters
\* clearPreviousMessages; the /start listener enters clearPreviousMessages.
\* With ids to delete, clearPreviousMessages issues the deletes and suspends
\* the handler.  With none it resets the list at once and the handler goes
\* on in the microtasks of the same turn, before any other event or reply.
TextEvent(chatId, text) ==
    LET n == Len(handlers)
        msgH == IF HasMessageHandler
                THEN <<NewHandler("message", chatId, text,
                           IF StartsWithStart(text) THEN "done" ELSE "clearing")>>
                ELSE <<>>
        txtH == IF RegexMatches(text)
                THEN <<NewHandler("onText", chatId, text, "clearing")>>
                ELSE <<>>
        new == msgH \o txtH
        clearing == {i \in 1..Len(new) : new[i].pc = "clearing"}
        ids == MapGet(chatId)
        calls == UNION {DeleteCalls(n + i, ids) : i \in clearing}
        cont == [i \in 1..Len(new) |->
                    IF i \in clearing THEN Continue(n + i, new[i])
                    ELSE [hr |-> new[i], calls |-> {}, add |-> {}]]
    IN  /\ events' = Append(events, NewEvent("message", chatId, text))
        /\ IF ids # <<>>
           THEN /\ handlers' = handlers \o new
                /\ deleting' = deleting \cup calls
                /\ deleteLog' = deleteLog \cup calls
                /\ UNCHANGED <<chatMessages, sending, authorizedUsers>>
           ELSE /\ handlers' = handlers \o [i \in 1..Len(new) |-> cont[i].hr]
                /\ sending' = sending \cup UNION {cont[i].calls : i \in 1..Len(new)}
                /\ authorizedUsers' =
                       authorizedUsers \cup UNION {cont[i].add : i \in 1..Len(new)}
                /\ chatMessages' = IF clearing # {}
                                   THEN Cleared(chatMessages, chatId, ids)
                                   ELSE chatMessages
                /\ UNCHANGED <<deleting, deleteLog>>
        /\ UNCHANGED <<variant, delivered, visible>>

\* bot.on('callback_query'), up to its first await or its return.
\* bot.answerCallbackQuery is not awaited and touches no state of the
\* program; it is left out.
CallbackEvent(chatId, data) ==
    LET h == Len(handlers) + 1
        hr == NewHandler("callback_query", chatId, data, "start")
        action == Part(data, 1)
        type == Part(data, 2)
        id == Part(data, 3)
        coll == IF type = <<"app">> THEN "Applications" ELSE "CallBacks"
        emptyBlock == COPY_HEADER \o COPY_FOOTER
    IN  /\ events' = Append(events, NewEvent("callback_query", chatId, data))
        /\ IF ~isAuthorized(chatId)
           THEN /\ handlers' = Append(handlers,
                                   WithSend(hr, MSG_NOT_AUTHORIZED, "await_return"))
                /\ sending' = sending \cup {SendCall(h, hr, MSG_NOT_AUTHORIZED, FALSE)}
           ELSE IF action # <<"copy">>
           THEN /\ handlers' = Append(handlers, [hr EXCEPT !.pc = "done"])
                /\ sending' = sending
           ELSE IF type \in {<<"app">>, <<"cb">>}
           THEN IF SupabaseDefined
                THEN /\ handlers' = Append(handlers,
                            [hr EXCEPT !.pc = "copyQuery",
                                       !.queries = <<[coll |-> coll, id |-> id]>>])
                     /\ sending' = sending
                ELSE \* bot.js: `supabase` is not declared; the ReferenceError
                     \* is caught by the handler's catch
                     /\ handlers' = Append(handlers, WithSend(hr, MSG_NOT_FOUND, "done"))
                     /\ sending' = sending \cup {SendCall(h, hr, MSG_NOT_FOUND, TRUE)}
           ELSE /\ handlers' = Append(handlers, WithSend(hr, emptyBlock, "done"))
                /\ sending' = sending \cup {SendCall(h, hr, emptyBlock, TRUE)}
        /\ UNCHANGED <<variant, authorizedUsers, chatMessages, deleting,
                       delivered, visible, deleteLog>>

HasRecord_always(body) == TRUE

\* if (!app) { return res.status(400)... }: the body carries a record
HasRecord(body) == body # "{}"

NotifyRecipients_audience == authorizedUsers

\* bot.sendMessage(adminChatId, message, ...): who the notification goes to
NotifyRecipients == {adminChatId}

NotifyEvent_tracked(endpoint, body) ==
    LET h == Len(handlers) + 1
        hr == NewHandler(endpoint, adminChatId, <<body>>, "done")
        message == IF endpoint = "notify_application"
                   THEN MSG_NOTIFY_APP ELSE MSG_NOTIFY_CB
    IN  /\ events' = Append(events, NewEvent(endpoint, adminChatId, <<body>>))
        /\ IF ~HasRecord(body)
           THEN /\ handlers' = Append(handlers, [hr EXCEPT !.status = 400])
                /\ sending' = sending
           ELSE /\ handlers' = Append(handlers,
                        [WithSend(hr, message, "done") EXCEPT
                             !.status = 200, !.sentTo = NotifyRecipients])
                /\ sending' = sending \cup
                       {[SendCall(h, hr, message, TRUE) EXCEPT !.chatId = c] :
                            c \in NotifyRecipients}
        /\ UNCHANGED <<variant, authorizedUsers, chatMessages, deleting,
                       delivered, visible, deleteLog>>

\* app.post('/notify/application') and app.post('/notify/callback'): the
\* handler is synchronous; bot.sendMessage is neither awaited nor tracked.
\* express.json() hands the route a parsed object, so nothing in the try
\* block throws and the 500 branch is not taken for these bodies.
NotifyEvent(endpoint, body) ==
    LET h == Len(handlers) + 1
        hr == NewHandler(endpoint, adminChatId, <<body>>, "done")
        message == IF endpoint = "notify_application"
                   THEN MSG_NOTIFY_APP ELSE MSG_NOTIFY_CB
    IN  /\ events' = Append(events, NewEvent(endpoint, adminChatId, <<body>>))
        /\ IF ~HasRecord(body)
           THEN /\ handlers' = Append(handlers, [hr EXCEPT !.status = 400])
                /\ sending' = sending
           ELSE /\ handlers' = Append(handlers,
                        [WithSend(hr, message, "done") EXCEPT
                             !.status = 200, !.sentTo = NotifyRecipients])
                /\ sending' = sending \cup
                       {[SendCall(h, hr, message, FALSE) EXCEPT !.chatId = c] :
                            c \in NotifyRecipients}
        /\ UNCHANGED <<variant, authorizedUsers, chatMessages, deleting,
                       delivered, visible, deleteLog>>

\* ------------------------------------------------- clearPreviousMessages

\* One bot.deleteMessage(chatId, id) settles; .catch(() => {}) swallows a
\* failure, so both outcomes only take the call out of flight.
DeleteDone(d, ok) ==
    /\ d \in deleting
    /\ deleting' = deleting \ {d}
    /\ visible' = IF ok THEN visible \ {d.id} ELSE visible
    /\ UNCHANGED <<variant, authorizedUsers, chatMessages, events, handlers,
                   sending, delivered, deleteLog>>

AfterClear_noWait(h) ==
    LET hr == handlers[h]
        cont == Continue(h, hr)
    IN  /\ h \in 1..Len(handlers)
        /\ hr.pc = "clearing"
        /\ chatMessages' = Cleared(chatMessages, hr.chatId, hr.messageIds)
        /\ handlers' = [handlers EXCEPT ![h] = cont.hr]
        /\ sending' = sending \cup cont.calls
        /\ authorizedUsers' = authorizedUsers \cup cont.add
        /\ UNCHANGED <<variant, events, deleting, delivered, visible, deleteLog>>

\* await Promise.all(...) has settled: clearPreviousMessages resets the list
\* and the handler that awaited it goes on.
AfterClear(h) ==
    LET hr == handlers[h]
        cont == Continue(h, hr)
    IN  /\ h \in 1..Len(handlers)
        /\ hr.pc = "clearing"
        /\ \A d \in deleting : d.h # h
        /\ chatMessages' = Cleared(chatMessages, hr.chatId, hr.messageIds)
        /\ handlers' = [handlers EXCEPT ![h] = cont.hr]
        /\ sending' = sending \cup cont.calls
        /\ authorizedUsers' = authorizedUsers \cup cont.add
        /\ UNCHANGED <<variant, events, deleting, delivered, visible, deleteLog>>

\* ------------------------------------------------ record source replies

ApplicationsReply_throws(h, outcome) ==
    LET hr == handlers[h]
        all == hr.text = BTN_ALL
        reply == IF outcome = "rows" THEN MSG_APPS_TABLE ELSE MSG_APPS_EMPTY
        pc == IF outcome = "empty"
              THEN (IF all THEN "await_showApplications" ELSE "await_return")
              ELSE (IF all THEN "afterApplications" ELSE "done")
    IN  /\ h \in 1..Len(handlers)
        /\ hr.pc = "appsQuery"
        /\ handlers' = [handlers EXCEPT ![h] =
               IF outcome = "error"
               THEN [hr EXCEPT !.pc = "rejected", !.replies = Append(@, outcome)]
               ELSE [WithSend(hr, reply, pc) EXCEPT !.replies = Append(@, outcome)]]
        /\ sending' = IF outcome = "error" THEN sending
                      ELSE sending \cup {SendCall(h, hr, reply, TRUE)}
        /\ UNCHANGED <<variant, authorizedUsers, chatMessages, events, deleting,
                       delivered, visible, deleteLog>>

\* showApplications after its axios.get settles.  Only the empty branch
\* returns the send's promise; the table and the error message are sent
\* without being awaited.
ApplicationsReply(h, outcome) ==
    LET hr == handlers[h]
        all == hr.text = BTN_ALL
        reply == CASE outcome = "rows" -> MSG_APPS_TABLE
                   [] outcome = "empty" -> MSG_APPS_EMPTY
                   [] outcome = "error" -> MSG_APPS_ERROR
        pc == IF outcome = "empty"
              THEN (IF all THEN "await_showApplications" ELSE "await_return")
              ELSE (IF all THEN "afterApplications" ELSE "done")
    IN  /\ h \in 1..Len(handlers)
        /\ hr.pc = "appsQuery"
        /\ handlers' = [handlers EXCEPT ![h] =
               [WithSend(hr, reply, pc) EXCEPT !.replies = Append(@, outcome)]]
        /\ sending' = sending \cup {SendCall(h, hr, reply, TRUE)}
        /\ UNCHANGED <<variant, authorizedUsers, chatMessages, events, deleting,
                       delivered, visible, deleteLog>>

\* 'Показати все': await sendAndTrackMessage(chatId, '---', mainKeyboard)
Separator(h) ==
    LET hr == handlers[h]
    IN  /\ h \in 1..Len(handlers)
        /\ hr.pc = "afterApplications"
        /\ handlers' = [handlers EXCEPT ![h] = WithSend(hr, MSG_SEPARATOR, "await_separator")]
        /\ sending' = sending \cup {SendCall(h, hr, MSG_SEPARATOR, TRUE)}
        /\ UNCHANGED <<variant, authorizedUsers, chatMessages, events, deleting,
                       delivered, visible, deleteLog>>

\* showCallbacks after its axios.get settles.
CallbacksReply(h, outcome) ==
    LET hr == handlers[h]
        reply == CASE outcome = "rows" -> MSG_CBS_TABLE
                   [] outcome = "empty" -> MSG_CBS_EMPTY
                   [] outcome = "error" -> MSG_CBS_ERROR
    IN  /\ h \in 1..Len(handlers)
        /\ hr.pc = "cbsQuery"
        /\ handlers' = [handlers EXCEPT ![h] =
               [WithSend(hr, reply, IF outcome = "empty" THEN "await_return" ELSE "done")
                   EXCEPT !.replies = Append(@, outcome)]]
        /\ sending' = sending \cup {SendCall(h, hr, reply, TRUE)}
        /\ UNCHANGED <<variant, authorizedUsers, chatMessages, events, deleting,
                       delivered, visible, deleteLog>>

\* The detail block of the copy action: the header, plus the fields of the
\* first row when there is one.
CopyBlock(type, outcome) ==
    COPY_HEADER
    \o (IF outcome = "rows"
        THEN (IF type = <<"app">> THEN APP_FIELDS ELSE CB_FIELDS)
        ELSE <<>>)
    \o COPY_FOOTER

\* bot.on('callback_query') after its axios.get settles.
CopyReply(h, outcome) ==
    LET hr == handlers[h]
        reply == IF outcome = "error" THEN MSG_NOT_FOUND
                 ELSE CopyBlock(Part(hr.text, 2), outcome)
    IN  /\ h \in 1..Len(handlers)
        /\ hr.pc = "copyQuery"
        /\ handlers' = [handlers EXCEPT ![h] =
               [WithSend(hr, reply, "done") EXCEPT !.replies = Append(@, outcome)]]
        /\ sending' = sending \cup {SendCall(h, hr, reply, TRUE)}
        /\ UNCHANGED <<variant, authorizedUsers, chatMessages, events, deleting,
                       delivered, visible, deleteLog>>

\* ------------------------------------------------------ gateway replies

\* The handler that awaits (or returns) the send call s resumes when the
\* call settles; the awaited call is always the handler's latest.
Awaits(hr, s) ==
    /\ s.n = Len(hr.out)
    /\ hr.pc \in {"await_return", "await_showApplications", "await_separator"}

Resumed_haltOnFail(hr, s, ok) ==
    IF ~Awaits(hr, s) THEN hr
    ELSE IF ~ok THEN [hr EXCEPT !.pc = "rejected"]
    ELSE CASE hr.pc = "await_showApplications" -> [hr EXCEPT !.pc = "afterApplications"]
           [] hr.pc = "await_separator" ->
                  [hr EXCEPT !.pc = "cbsQuery",
                             !.queries = Append(@, [coll |-> "CallBacks", id |-> <<>>])]
           [] hr.pc = "await_return" -> [hr EXCEPT !.pc = "done"]

\* What the handler that awaits (or returns) call s does when s settles.
\* sendAndTrackMessage catches the rejection, so a tracked call resumes its
\* caller alike on success and on failure.
Resumed(hr, s, ok) ==
    IF ~Awaits(hr, s) THEN hr
    ELSE CASE hr.pc = "await_showApplications" -> [hr EXCEPT !.pc = "afterApplications"]
           [] hr.pc = "await_separator" ->
                  [hr EXCEPT !.pc = "cbsQuery",
                             !.queries = Append(@, [coll |-> "CallBacks", id |-> <<>>])]
           [] hr.pc = "await_return" ->
                  [hr EXCEPT !.pc = IF ok \/ s.tracked THEN "done" ELSE "rejected"]

SendOk_overwrite(s) ==
    LET id == Len(delivered) + 1
    IN  /\ s \in sending
        /\ sending' = sending \ {s}
        /\ delivered' = Append(delivered, s)
        /\ visible' = visible \cup {id}
        /\ chatMessages' = IF s.tracked
                           THEN MapSet(chatMessages, s.chatId, <<id>>)
                           ELSE chatMessages
        /\ handlers' = [handlers EXCEPT ![s.h] = Resumed(@, s, TRUE)]
        /\ UNCHANGED <<variant, authorizedUsers, events, deleting, deleteLog>>

\* bot.sendMessage resolves with the sent message; sendAndTrackMessage then
\* appends its message_id to the chat's list: chatMessages.get and
\* chatMessages.set run with no await between them.
SendOk(s) ==
    LET id == Len(delivered) + 1
    IN  /\ s \in sending
        /\ sending' = sending \ {s}
        /\ delivered' = Append(delivered, s)
        /\ visible' = visible \cup {id}
        /\ chatMessages' = IF s.tracked
                           THEN MapSet(chatMessages, s.chatId, Append(MapGet(s.chatId), id))
                           ELSE chatMessages
        /\ handlers' = [handlers EXCEPT ![s.h] = Resumed(@, s, TRUE)]
        /\ UNCHANGED <<variant, authorizedUsers, events, deleting, deleteLog>>

SendFail_retry(s) ==
    /\ s \in sending
    /\ sending' = IF s.tracked THEN sending \ {s} ELSE sending
    /\ handlers' = [handlers EXCEPT ![s.h] =
           [Resumed(@, s, FALSE) EXCEPT !.unhandledRejection = @ \/ ~s.tracked]]
    /\ UNCHANGED <<variant, authorizedUsers, chatMessages, events, deleting,
                   delivered, visible, deleteLog>>

\* bot.sendMessage rejects: sendAndTrackMessage logs and returns; a plain
\* bot.sendMessage leaves a rejected promise nobody handles.  The promise is
\* the gateway library's; no statement of the program runs when it rejects.
SendFail(s) ==
    /\ s \in sending
    /\ sending' = sending \ {s}
    /\ handlers' = [handlers EXCEPT ![s.h] =
           [Resumed(@, s, FALSE) EXCEPT !.unhandledRejection = @ \/ ~s.tracked]]
    /\ UNCHANGED <<variant, authorizedUsers, chatMessages, events, deleting,
                   delivered, visible, deleteLog>>

\* ---------------------------------------------------------------- next
Endpoints == {"notify_application", "notify_callback"}

Inbound(texts, data) ==
    \/ \E c \in Chats, text \in texts : TextEvent(c, text)
    \/ \E c \in Chats, d \in data : CallbackEvent(c, d)
    \/ \E e \in Endpoints, b \in Bodies : NotifyEvent(e, b)

Settle ==
    \/ \E d \in deleting, ok \in BOOLEAN : DeleteDone(d, ok)
    \/ \E h \in 1..Len(handlers) : AfterClear(h)
    \/ \E h \in 1..Len(handlers), o \in QueryOutcomes : ApplicationsReply(h, o)
    \/ \E h \in 1..Len(handlers) : Separator(h)
    \/ \E h \in 1..Len(handlers), o \in QueryOutcomes : CallbacksReply(h, o)
    \/ \E h \in 1..Len(handlers), o \in QueryOutcomes : CopyReply(h, o)
    \/ \E s \in sending : SendOk(s)
    \/ \E s \in sending : SendFail(s)

\* Nothing is in flight and every handler has returned.
Quiescent ==
    /\ sending = {}
    /\ deleting = {}
    /\ \A h \in 1..Len(handlers) : handlers[h].pc \in {"done", "rejected"}

\* Events arrive at any time: handlers interleave at their awaits.
Next ==
    \/ Len(events) < MaxEvents /\ Inbound(Texts, CallbackData)
    \/ Settle

Spec == Init /\ [][Next]_vars

\* Events arrive one after the other, each after the previous one's calls
\* have all settled.
NextSeq ==
    \/ Len(events) < MaxSeqEvents /\ Quiescent /\ Inbound(SeqTexts, SeqData)
    \/ \E d \in deleting, ok \in BOOLEAN : DeleteDone(d, ok)
    \/ \E h \in 1..Len(handlers) : AfterClear(h)
    \/ \E h \in 1..Len(handlers), o \in QueryOutcomes : CallbacksReply(h, o)
    \/ \E h \in 1..Len(handlers), o \in QueryOutcomes : CopyReply(h, o)
    \/ \E s \in sending : SendOk(s)
    \/ \E s \in sending : SendFail(s)

SpecSeq == Init /\ [][NextSeq]_vars

\* the texts of the authorization scenario: a wrong password, the shared
\* secret, and the 'show applications' button
ScenarioTexts == { <<"/start", " ", "pw", "x">>, <<"/start", " ", "pw">>, BTN_APPS }

\* Text messages arrive one after the other, each after the previous one's
\* calls have all settled.
NextScenario ==
    \/ /\ Len(events) < MaxSeqEvents
       /\ Quiescent
       /\ \E c \in Chats, text \in ScenarioTexts : TextEvent(c, text)
    \/ \E d \in deleting, ok \in BOOLEAN : DeleteDone(d, ok)
    \/ \E h \in 1..Len(handlers) : AfterClear(h)
    \/ \E h \in 1..Len(handlers), o \in QueryOutcomes : ApplicationsReply(h, o)
    \/ \E s \in sending : SendOk(s)
    \/ \E s \in sending : SendFail(s)

SpecScenario == Init /\ [][NextScenario]_vars

\* the inputs of the runs checked for termination: every kind of handler,
\* with 'show all' as the longest chain of awaits
LiveTexts == { <<"/start", " ", "pw">>, BTN_ALL }

LiveData == { <<"copy", "_", "app", "_", "1">> }

\* the admin chat and one chat that starts unauthorized
LiveChats == {adminChatId, adminChatId + 1}

\* The process is running: no rejection has been raised as an uncaught
\* exception.
Alive == \A h \in 1..Len(handlers) : handlers[h].pc # "uncaught"

\* The async callback_query listener returned bot.sendMessage(...) and the
\* send failed: the listener's promise is rejected and nothing handles it
\* (the emitter drops it, the program registers no 'unhandledRejection' or
\* 'uncaughtException' listener).  The runtime either reports the rejection
\* and goes on, or raises it as an uncaught exception, which ends the
\* process; which of the two depends on the runtime's unhandled-rejections
\* mode.  A promise of the gateway library that the program drops without
\* returning it (the notify routes) is not a promise of an async function
\* of the program and does not take this path.
Terminate(h) ==
    /\ Alive
    /\ h \in 1..Len(handlers)
    /\ handlers[h].pc = "rejected"
    /\ handlers' = [handlers EXCEPT ![h].pc = "uncaught"]
    /\ UNCHANGED <<variant, authorizedUsers, chatMessages, events, sending,
                   deleting, delivered, visible, deleteLog>>

\* A call made by a handler of chat c returns to the running process: a
\* deleteMessage or a sendMessage of the gateway, or a query of the record
\* source, with either outcome.
Returns(c) ==
  /\ Alive
  /\
    \/ \E d \in deleting, ok \in BOOLEAN :
           handlers[d.h].chatId = c /\ DeleteDone(d, ok)
    \/ \E h \in 1..Len(handlers), o \in QueryOutcomes :
           handlers[h].chatId = c /\ ApplicationsReply(h, o)
    \/ \E h \in 1..Len(handlers), o \in QueryOutcomes :
           handlers[h].chatId = c /\ CallbacksReply(h, o)
    \/ \E h \in 1..Len(handlers), o \in QueryOutcomes :
           handlers[h].chatId = c /\ CopyReply(h, o)
    \/ \E s \in sending : handlers[s.h].chatId = c /\ SendOk(s)
    \/ \E s \in sending : handlers[s.h].chatId = c /\ SendFail(s)

\* A handler whose awaited promise has settled goes on: the continuation is
\* a job of the event loop, which runs every job that is ready.
Continuations ==
  /\ Alive
  /\
    \/ \E h \in 1..Len(handlers) : AfterClear(h)
    \/ \E h \in 1..Len(handlers) : Separator(h)

NextLive ==
    \/ /\ Alive
       /\ Len(events) < MaxLiveEvents
       /\ \/ \E c \in LiveChats, text \in LiveTexts :
                 /\ text = BTN_ALL => \A e \in 1..Len(events) : events[e].text # BTN_ALL
                 /\ TextEvent(c, text)
          \/ \E c \in LiveChats, d \in LiveData : CallbackEvent(c, d)
          \/ \E e \in Endpoints : NotifyEvent(e, "{record}")
    \/ \E c \in LiveChats : Returns(c)
    \/ Continuations
    \/ \E h \in 1..Len(handlers) : Terminate(h)

\* The event loop of a running process is fair to ready continuations;
\* whether a call returns is up to the gateway and the record source and is
\* not assumed here, and nothing obliges the runtime to end the process.
SpecLive == Init /\ [][NextLive]_vars /\ WF_vars(Continuations)

\* =================================================================
\* Properties
\* =================================================================

Handlers == 1..Len(handlers)

\* every sendMessage call handler h has issued that is in flight or delivered
CallsOf(h) ==
    {s \in sending : s.h = h} \cup {delivered[i] : i \in {j \in 1..Len(delivered) : delivered[j].h = h}}

\* the texts of the inputs whose word after /start is the shared secret
CorrectTexts ==
    { <<"/start", " ", "pw">>, <<"hi", " ", "/start", " ", "pw", " ">> }

\* handler h runs the part of a /start or message handler that follows the
\* clear in this step
ContinuesNow(h) ==
    /\ h \in 1..Len(handlers')
    /\ handlers'[h].kind \in {"onText", "message"}
    /\ handlers'[h].out # <<>> \/ handlers'[h].queries # <<>>
    /\ h \in Handlers => handlers[h].pc = "clearing"

\* C1: a copy callback handled for a chat that is not authorized issues no
\* record-source query and sends that chat the authorization error and
\* nothing else; a chat that is not authorized has never been sent a message
\* carrying record fields.
C1_UnauthCopyNoLeak ==
    /\ \A h \in Handlers :
          (handlers[h].kind = "callback_query" /\ handlers[h].chatId \notin events[handlers[h].event].audience)
              => /\ handlers[h].queries = <<>>
                 /\ handlers[h].out = <<MSG_NOT_AUTHORIZED>>
                 /\ \A s \in CallsOf(h) : s.text = MSG_NOT_AUTHORIZED
    /\ \A c \in Chats \ authorizedUsers :
          /\ \A s \in sending : s.chatId = c => ~CarriesRecordFields(s.text)
          /\ \A i \in 1..Len(delivered) :
                 delivered[i].chatId = c => ~CarriesRecordFields(delivered[i].text)

\* a copy callback for an application, from a chat that is not authorized,
\* has been answered
C1_Witness ==
    \E h \in Handlers :
        /\ handlers[h].kind = "callback_query"
        /\ handlers[h].chatId \notin authorizedUsers
        /\ handlers[h].text = <<"copy", "_", "app", "_", "1">>
        /\ \E i \in 1..Len(delivered) : delivered[i].h = h

\* C2: a /start handler answers with the menu and has its chat authorized
\* exactly when the word after /start is the shared secret; with any other
\* word the authorized set stays as it was; and a correct /start from a chat
\* that is authorized already leaves the authorized set unchanged.
C2_AuthorizeIffSecret ==
    [][\A h \in 1..Len(handlers') :
          (ContinuesNow(h) /\ handlers'[h].kind = "onText") =>
              LET c == handlers'[h].chatId
                  correct == handlers'[h].text \in CorrectTexts
                  menu == handlers'[h].out = <<MSG_AUTH_OK>>
              IN  /\ menu <=> correct
                  /\ correct => c \in authorizedUsers'
                  /\ ~correct => authorizedUsers' = authorizedUsers
                  /\ c \in authorizedUsers => authorizedUsers' = authorizedUsers
      ]_vars

\* a chat other than the admin has presented the correct secret twice, the
\* second time after the first was answered
C2_Witness ==
    \E h1, h2 \in Handlers :
        /\ h1 < h2
        /\ handlers[h1].kind = "onText" /\ handlers[h2].kind = "onText"
        /\ handlers[h1].chatId = handlers[h2].chatId
        /\ handlers[h1].chatId # adminChatId
        /\ handlers[h1].text \in CorrectTexts /\ handlers[h2].text \in CorrectTexts
        /\ handlers[h1].chatId \in events[handlers[h2].event].audience
        /\ handlers[h2].out = <<MSG_AUTH_OK>>

\* C3: the authorized set never loses a chat, the admin is in it from the
\* start, and the only step that adds a chat is a /start handler given the
\* correct secret, which adds its own chat.
C3_AuthorizationMonotonic ==
    [][/\ adminChatId \in authorizedUsers
       /\ authorizedUsers \subseteq authorizedUsers'
       /\ authorizedUsers' # authorizedUsers =>
             \E h \in 1..Len(handlers') :
                 /\ ContinuesNow(h)
                 /\ handlers'[h].kind = "onText"
                 /\ handlers'[h].text \in CorrectTexts
                 /\ authorizedUsers' = authorizedUsers \cup {handlers'[h].chatId}
      ]_vars

\* a chat authorized by the secret has since sent a /start with a wrong
\* password and is authorized still
C3_Witness ==
    \E h1, h2 \in Handlers :
        /\ h1 < h2
        /\ handlers[h1].chatId = handlers[h2].chatId
        /\ handlers[h1].chatId # adminChatId
        /\ handlers[h1].out = <<MSG_AUTH_OK>>
        /\ handlers[h2].out = <<MSG_WRONG_PW>>
        /\ handlers[h2].pc = "done"
        /\ handlers[h1].chatId \in authorizedUsers

\* handler h calls clearPreviousMessages (the message handler returns before
\* it for a /start text)
DidClear(hr) ==
    /\ hr.kind \in {"onText", "message"}
    /\ ~(hr.kind = "message" /\ StartsWithStart(hr.text))

\* clearPreviousMessages of handler h resets the chat's list in this step
ClearCompletesNow(h) ==
    /\ h \in 1..Len(handlers')
    /\ DidClear(handlers'[h])
    /\ handlers'[h].pc # "clearing"
    /\ h \in Handlers => handlers[h].pc = "clearing"

\* the ids handler h has asked the gateway to delete
DeletesOf(h) == {d.id : d \in {x \in deleteLog : x.h = h}}

\* C4: whenever a clearPreviousMessages call completes, the chat's tracked
\* list is empty, whether or not its delete requests succeeded, and the
\* handler that called it goes on to its next call; a delete that settles,
\* with either outcome, leaves every handler where it was.
C4_ClearEmptiesList ==
    [][/\ \A h \in 1..Len(handlers') :
             ClearCompletesNow(h) =>
                 /\ handlers'[h].chatId \in DOMAIN chatMessages'
                 /\ chatMessages'[handlers'[h].chatId] = <<>>
                 /\ handlers'[h].out # <<>> \/ handlers'[h].queries # <<>>
       /\ (deleting' # deleting /\ deleting' \subseteq deleting) => handlers' = handlers
      ]_vars

\* a clear has completed although one of its delete requests failed
C4_Witness ==
    \E h \in Handlers : \E id \in DeletesOf(h) :
        /\ [h |-> h, id |-> id] \notin deleting
        /\ id \in visible
        /\ handlers[h].pc # "clearing"
        /\ handlers[h].out # <<>>
        /\ MapGet(handlers[h].chatId) = <<>>

\* the handlers of chat c that call clearPreviousMessages
ClearsOf(c) == {h \in Handlers : handlers[h].chatId = c /\ DidClear(handlers[h])}

\* the last such handler before handler h, or 0
LastClearBefore(c, h) ==
    LET before == {k \in ClearsOf(c) : k < h}
    IN  IF before = {} THEN 0 ELSE CHOOSE k \in before : \A j \in before : j <= k

\* the ids sendAndTrackMessage has appended for chat c, sent by handlers k..h-1
TrackedSince(c, k, h) ==
    {i \in 1..Len(delivered) :
        /\ delivered[i].tracked
        /\ delivered[i].chatId = c
        /\ delivered[i].h >= k
        /\ delivered[i].h < h}

\* C5 (events handled one after the other): a clear asks the gateway to
\* delete exactly the ids appended to its chat's list since the previous
\* clear of that chat, each id is asked for once and by one clear only, the
\* list holds exactly the ids appended since the last clear whenever no clear
\* is under way, so it is empty after a clear and a further clear with no
\* send in between deletes nothing.
C5_ClearDeletesExactlyTracked ==
    /\ \A h \in Handlers :
          DidClear(handlers[h]) =>
              DeletesOf(h) = TrackedSince(handlers[h].chatId,
                                 LastClearBefore(handlers[h].chatId, h), h)
    /\ \A d1, d2 \in deleteLog : d1.id = d2.id => d1 = d2
    /\ \A c \in Chats :
          (\A h \in ClearsOf(c) : handlers[h].pc # "clearing") =>
              Range(MapGet(c)) =
                  TrackedSince(c, LastClearBefore(c, Len(handlers) + 1), Len(handlers) + 1)

\* three clears of one chat in a row: the second deleted what the first
\* handler had sent, the third found nothing to delete
C5_Witness ==
    \E c \in Chats : \E h1, h2, h3 \in ClearsOf(c) :
        /\ h1 < h2 /\ h2 < h3
        /\ DeletesOf(h2) # {}
        /\ DeletesOf(h2) = TrackedSince(c, h1, h2)
        /\ DeletesOf(h3) = {}
        /\ handlers[h3].out # <<>>
        /\ MapGet(c) = <<>>

\* the chats whose /start handler was given the shared secret and has run
\* past its clear
Presented ==
    {handlers[h].chatId : h \in {k \in Handlers :
        /\ handlers[k].kind = "onText"
        /\ handlers[k].text \in CorrectTexts
        /\ handlers[k].pc # "clearing"}}

\* C6: the authorized set is the admin together with the chats that have
\* presented the shared secret, and nobody else: with N such chats other
\* than the admin it has N + 1 members.
C6_AudienceIsAdminPlusPresented ==
    /\ authorizedUsers = {adminChatId} \cup Presented
    /\ Cardinality(authorizedUsers) = Cardinality(Presented \ {adminChatId}) + 1

\* two chats other than the admin have presented the secret: three members
C6_Witness ==
    /\ Cardinality(Presented \ {adminChatId}) = 2
    /\ Cardinality(authorizedUsers) = 3

\* the notification handlers that were given a record
NotifiedWith(h) ==
    /\ handlers[h].kind \in Endpoints
    /\ handlers[h].text = <<"{record}">>

\* C7 as stated: a notification with a record is sent once to every chat that
\* is authorized when it is processed, and the endpoint answers 200.
C7_Original_EveryAuthorizedChat ==
    \A h \in Handlers :
        NotifiedWith(h) =>
            /\ handlers[h].status = 200
            /\ Len(handlers[h].out) = 1
            /\ \A c \in events[handlers[h].event].audience : c \in handlers[h].sentTo

\* C7 as amended: a notification with a record makes exactly one sendMessage
\* call, with the formatted message of its endpoint, to the configured admin
\* chat and to no other chat, and the endpoint answers 200.
C7_NotificationToAdminOnly ==
    \A h \in Handlers :
        NotifiedWith(h) =>
            /\ handlers[h].status = 200
            /\ handlers[h].out = <<IF handlers[h].kind = "notify_application"
                                   THEN MSG_NOTIFY_APP ELSE MSG_NOTIFY_CB>>
            /\ handlers[h].sentTo = {adminChatId}
            /\ \A s \in CallsOf(h) : s.chatId = adminChatId /\ s.text = handlers[h].out[1]
            /\ \A i, j \in 1..Len(delivered) :
                   (delivered[i].h = h /\ delivered[j].h = h) => i = j

\* an application notification has reached the admin while another chat was
\* authorized
C7_Witness ==
    \E h \in Handlers :
        /\ handlers[h].kind = "notify_application"
        /\ handlers[h].text = <<"{record}">>
        /\ events[handlers[h].event].audience # {adminChatId}
        /\ \E i \in 1..Len(delivered) :
               delivered[i].h = h /\ delivered[i].chatId = adminChatId

\* a notification handler without a record is dispatched in this step
RejectsNow(h) ==
    /\ h = Len(handlers) + 1
    /\ Len(handlers') = h
    /\ handlers'[h].kind \in Endpoints
    /\ handlers'[h].text = <<"{}">>

\* C8: a notification whose body has no record is answered 400, sends
\* nothing, and leaves the authorized set, every tracked list and the
\* gateway's calls and messages as they were.
C8_MissingRecordRejected ==
    [][\A h \in 1..Len(handlers') :
          RejectsNow(h) =>
              /\ handlers'[h].status = 400
              /\ handlers'[h].out = <<>>
              /\ sending' = sending
              /\ delivered' = delivered
              /\ authorizedUsers' = authorizedUsers
              /\ chatMessages' = chatMessages
      ]_vars

\* a notification without a record has been answered while a chat had a
\* tracked message
C8_Witness ==
    \E h \in Handlers :
        /\ handlers[h].kind \in Endpoints
        /\ handlers[h].text = <<"{}">>
        /\ handlers[h].status = 400
        /\ \E c \in Chats : MapGet(c) # <<>>

\* C9 as stated: when the query of a copy action succeeds with no matching
\* row, the chat is sent the "record not found" message and no detail block.
C9_NotFoundReported ==
    \A h \in Handlers :
        (handlers[h].kind = "callback_query" /\ handlers[h].replies = <<"empty">>)
            => handlers[h].out = <<MSG_NOT_FOUND>>

\* C10 as stated: a text that is not the authorization command, from a chat
\* that is not authorized, is answered with the "please authorize" prompt,
\* sent after the clear, by a handler that issues no record-source query,
\* and the chat is authorized later only if it has presented the secret.
C10_UnauthenticatedTextPrompted ==
    \A e \in 1..Len(events) :
        (/\ events[e].type = "message"
         /\ events[e].chatId \notin events[e].audience
         /\ events[e].text # <<>>
         /\ ~RegexMatches(events[e].text))
            => /\ events[e].chatId \in authorizedUsers => events[e].chatId \in Presented
               /\ \E h \in Handlers :
                   /\ handlers[h].event = e
                   /\ handlers[h].kind = "message"
                   /\ handlers[h].queries = <<>>
                   /\ \/ handlers[h].pc = "clearing" /\ handlers[h].out = <<>>
                      \/ handlers[h].out = <<MSG_PLEASE_AUTH>>

\* the handlers of listener `kind` dispatched for event e
HandlersOf(e, kind) ==
    {h \in Handlers : handlers[h].event = e /\ handlers[h].kind = kind}

\* the first three events are text messages of chat c: /start with a wrong
\* password, /start with the shared secret, the 'show applications' button;
\* all their handlers have returned and every record-source query of the
\* third was answered with no rows
ScenarioRan(c) ==
    /\ Len(events) = 3
    /\ \A e \in 1..3 : events[e].type = "message" /\ events[e].chatId = c
    /\ events[1].text = <<"/start", " ", "pw", "x">>
    /\ events[2].text = <<"/start", " ", "pw">>
    /\ events[3].text = BTN_APPS
    /\ Quiescent
    /\ \A h \in Handlers :
           handlers[h].event = 3 => handlers[h].replies \in {<<>>, <<"empty">>}

\* what the scenario promises chat c
ScenarioOutcome(c) ==
    /\ \E h \in HandlersOf(1, "onText") : handlers[h].out = <<MSG_WRONG_PW>>
    /\ c \notin events[2].audience
    /\ \E h \in HandlersOf(2, "onText") : handlers[h].out = <<MSG_AUTH_OK>>
    /\ c \in events[3].audience
    /\ \E h \in HandlersOf(3, "message") : handlers[h].out = <<MSG_APPS_EMPTY>>

\* C11 as stated: the admin chat sends /start with a wrong password, is sent
\* the wrong-password message and is not authenticated by it; it sends /start
\* with the shared secret and is sent the menu; it presses 'show
\* applications' while there are no applications and is sent the empty-state
\* message and no table.
C11_AdminScenario == ScenarioRan(adminChatId) => ScenarioOutcome(adminChatId)

\* every notification handler that was given a record has answered 200,
\* has returned, and has made one sendMessage call and no more; once that
\* call has failed no call of the handler is in flight or delivered
NotifyAnswered ==
    \A h \in Handlers :
        NotifiedWith(h) =>
            /\ handlers[h].status = 200
            /\ handlers[h].pc = "done"
            /\ Len(handlers[h].out) = 1
            /\ Cardinality(CallsOf(h)) <= 1
            /\ handlers[h].unhandledRejection => CallsOf(h) = {}

\* the sendMessage call s of a notification handler fails in this step
NotifySendFailsNow(s) ==
    /\ s \in sending
    /\ handlers[s.h].kind \in Endpoints
    /\ handlers'[s.h].unhandledRejection
    /\ ~handlers[s.h].unhandledRejection

\* C12: a notification with a record is answered 200 as soon as its send
\* has been issued, and the answer stays 200; when the send fails the call
\* is gone and is not issued again, the handler keeps its 200, and the
\* authorized set, the tracked lists, the other handlers and the other calls
\* in flight are as they were, so the program goes on serving events.
C12_NotifyAnswers200 ==
    [][/\ NotifyAnswered'
       /\ \A s \in sending :
             NotifySendFailsNow(s) =>
                 /\ sending' = sending \ {s}
                 /\ handlers' = [handlers EXCEPT ![s.h].unhandledRejection = TRUE]
                 /\ handlers'[s.h].status = 200
                 /\ authorizedUsers' = authorizedUsers
                 /\ chatMessages' = chatMessages
                 /\ events' = events
                 /\ deleting' = deleting
                 /\ delivered' = delivered
      ]_vars

\* the send of a notification has failed, and an event that arrived after
\* the notification has been answered with a delivered message
C12_Witness ==
    \E h, k \in Handlers :
        /\ NotifiedWith(h)
        /\ handlers[h].unhandledRejection
        /\ handlers[h].status = 200
        /\ CallsOf(h) = {}
        /\ k > h
        /\ \E i \in 1..Len(delivered) : delivered[i].h = k

\* a clearPreviousMessages call of chat c has read the list and has not yet
\* reset it
ClearUnderWay(c) ==
    \E h \in Handlers : handlers[h].chatId = c /\ handlers[h].pc = "clearing"

\* a sendAndTrackMessage call of chat c completes in this step: the gateway
\* accepts the message and its id is appended to the chat's list
TrackedSendCompletesNow(c) ==
    \E s \in sending :
        /\ s.tracked
        /\ s.chatId = c
        /\ delivered' = Append(delivered, s)

\* C13 as stated: no tracked send of a chat completes while a clear of that
\* chat is between reading the chat's list and resetting it.
C13_ClearSendSerialized ==
    [][\A c \in Chats : ClearUnderWay(c) => ~TrackedSendCompletesNow(c)]_vars

\* the events of chat c that render a screen: one of their handlers calls
\* clearPreviousMessages
ScreensOf(c) == {handlers[h].event : h \in ClearsOf(c)}

\* the screen of chat c that a send of handler h belongs to: the last
\* screen-rendering event of c up to the event of h (the copy action's send
\* joins the current screen), or 0
ScreenOf(c, h) ==
    LET upTo == {e \in ScreensOf(c) : e <= handlers[h].event}
    IN  IF upTo = {} THEN 0 ELSE CHOOSE e \in upTo : \A x \in upTo : x <= e

\* the latest screen of chat c, or 0
CurrentScreen(c) ==
    IF ScreensOf(c) = {} THEN 0
    ELSE CHOOSE e \in ScreensOf(c) : \A x \in ScreensOf(c) : x <= e

\* C14 as stated: a handler sends nothing before its own clear has
\* completed; when the next clear of a chat starts, no tracked send of an
\* earlier screen of that chat is still in flight; and the chat's list never
\* holds ids of two different screens.
C14_ScreenOrdering ==
    \A c \in Chats :
        /\ \A h \in ClearsOf(c) :
               handlers[h].pc = "clearing" => handlers[h].out = <<>>
        /\ \A s \in sending :
               (s.tracked /\ s.chatId = c) => ScreenOf(c, s.h) = CurrentScreen(c)
        /\ \A i, j \in Range(MapGet(c)) :
               ScreenOf(c, delivered[i].h) = ScreenOf(c, delivered[j].h)

\* the ids for which a delete request has been issued
DeleteRequested == {d.id : d \in deleteLog}

\* C15 as stated: every message that sendAndTrackMessage has sent and for
\* which no delete request has been issued is in its chat's list, so no id
\* leaves a list without a delete request for it; and every id in a list is
\* the id of a tracked message of that chat.
C15_ListReflectsScreen ==
    /\ \A i \in 1..Len(delivered) :
           (delivered[i].tracked /\ i \notin DeleteRequested)
               => i \in Range(MapGet(delivered[i].chatId))
    /\ \A c \in Chats : \A i \in Range(MapGet(c)) :
           /\ i \in 1..Len(delivered)
           /\ delivered[i].tracked
           /\ delivered[i].chatId = c

\* handler record hr of the /start or the message listener has emitted
\* output or has gone on to the query that precedes it
Emits(hr) ==
    /\ hr.kind \in {"onText", "message"}
    /\ hr.out # <<>> \/ hr.queries # <<>>

\* every /start and message handler that has got as far as its first send
\* (or the query before it) has completed a clear of its chat: a delete was
\* requested for every id it read from the list and every one has settled;
\* a copy handler has requested no delete
ClearedBeforeOutput ==
    \A h \in Handlers :
        /\ Emits(handlers[h]) =>
               /\ DidClear(handlers[h])
               /\ handlers[h].pc # "clearing"
               /\ DeletesOf(h) = Range(handlers[h].messageIds)
               /\ \A d \in deleting : d.h # h
        /\ handlers[h].kind = "callback_query" => DeletesOf(h) = {}

\* a copy handler is dispatched, or goes on after its query, in this step
CopyStepsNow(h) ==
    /\ h \in 1..Len(handlers')
    /\ handlers'[h].kind = "callback_query"
    /\ h \in Handlers => handlers'[h] # handlers[h] /\ handlers[h].pc = "copyQuery"

\* a send of a copy handler completes in this step
CopySendCompletesNow(s) ==
    /\ s \in sending
    /\ handlers[s.h].kind = "callback_query"
    /\ delivered' = Append(delivered, s)

\* C16: a /start handler (usage hint, menu or wrong password) and a message
\* handler (the prompt to authorize, the three menu actions, the prompt to
\* use the buttons) complete a clear of their chat before their first send,
\* and the step that completes the clear leaves the list empty; a copy
\* handler requests no delete and changes no list, and when its send
\* completes the ids that were in the list are all still there, in place.
C16_ClearBeforeOutput ==
    [][/\ ClearedBeforeOutput'
       /\ \A h \in 1..Len(handlers') :
             (Emits(handlers'[h]) /\ (h \in Handlers => ~Emits(handlers[h])))
                 => /\ ClearCompletesNow(h)
                    /\ chatMessages'[handlers'[h].chatId] = <<>>
       /\ \A h \in 1..Len(handlers') :
             CopyStepsNow(h) =>
                 /\ chatMessages' = chatMessages
                 /\ deleteLog' = deleteLog
                 /\ deleting' = deleting
       /\ \A s \in sending :
             CopySendCompletesNow(s) =>
                 /\ deleteLog' = deleteLog
                 /\ \A c \in Chats :
                        /\ Len(MapGet(c)') >= Len(MapGet(c))
                        /\ SubSeq(MapGet(c)', 1, Len(MapGet(c))) = MapGet(c)
      ]_vars

\* the detail block of a copy action has been appended to a list that still
\* holds, in front of it, the id of a message sent by a handler that had
\* cleared the chat before sending
C16_Witness ==
    \E h, k \in Handlers : \E i, j \in 1..Len(delivered) :
        /\ Emits(handlers[h])
        /\ handlers[k].kind = "callback_query"
        /\ delivered[i].h = h /\ delivered[j].h = k
        /\ i < j
        /\ handlers[k].text = <<"copy", "_", "app", "_", "1">>
        /\ MapGet(handlers[k].chatId) = <<i, j>>

\* the sendAndTrackMessage call s fails in this step
TrackedSendFailsNow(s) ==
    /\ s \in sending
    /\ s.tracked
    /\ s \notin sending'
    /\ delivered' = delivered

\* C17: when the gateway call of a sendAndTrackMessage fails, every tracked
\* list, the authorized set and every other handler are as they were,
\* nothing is raised into the caller, and a caller that awaited the send goes
\* on exactly as after a successful send: in 'show all' a failed
\* applications message is followed by the separator, and a failed separator
\* by the call-backs query.
C17_FailedSendHarmless ==
    [][\A s \in sending :
          TrackedSendFailsNow(s) =>
              LET old == handlers[s.h]
                  new == handlers'[s.h]
              IN  /\ chatMessages' = chatMessages
                  /\ authorizedUsers' = authorizedUsers
                  /\ visible' = visible
                  /\ \A k \in Handlers \ {s.h} : handlers'[k] = handlers[k]
                  /\ new.pc # "rejected"
                  /\ new.unhandledRejection = old.unhandledRejection
                  /\ new.out = old.out
                  /\ ~Awaits(old, s) => new = old
                  /\ (Awaits(old, s) /\ old.pc = "await_return") => new.pc = "done"
                  /\ (Awaits(old, s) /\ old.pc = "await_showApplications")
                         => new.pc = "afterApplications"
                  /\ (Awaits(old, s) /\ old.pc = "await_separator")
                         => /\ new.pc = "cbsQuery"
                            /\ new.queries =
                                   Append(old.queries, [coll |-> "CallBacks", id |-> <<>>])
      ]_vars

\* 'show all' whose separator send failed: the call-backs query was made all
\* the same and its message has been delivered
C17_Witness ==
    \E h \in Handlers :
        /\ handlers[h].text = BTN_ALL
        /\ Len(handlers[h].out) = 3
        /\ handlers[h].out[2] = MSG_SEPARATOR
        /\ \A s \in CallsOf(h) : s.n # 2
        /\ \E i \in 1..Len(delivered) : delivered[i].h = h /\ delivered[i].n = 3
        /\ Len(handlers[h].queries) = 2

\* the list query of handler h fails in this step
ListQueryFailsNow(h) ==
    /\ h \in Handlers
    /\ handlers[h].pc \in {"appsQuery", "cbsQuery"}
    /\ handlers'[h].replies = Append(handlers[h].replies, "error")

\* the "could not fetch" message of the query handler h is waiting on
FetchError(h) ==
    IF handlers[h].pc = "appsQuery" THEN MSG_APPS_ERROR ELSE MSG_CBS_ERROR

\* C18: when the list query of a menu action fails, the handler sends its
\* chat the "could not fetch" message of that list through
\* sendAndTrackMessage, nothing is raised out of the handler (in 'show all'
\* it goes on to the separator), and the authorized set and every tracked
\* list are as they were; only an authorized chat's handler makes a list
\* query, and no message handler ever ends in a rejection.
C18_ListQueryErrorCaught ==
    [][/\ \A h \in 1..Len(handlers') :
             handlers'[h].kind = "message" =>
                 /\ handlers'[h].pc # "rejected"
                 /\ ~handlers'[h].unhandledRejection
                 /\ handlers'[h].queries # <<>> => handlers'[h].authorized
       /\ \A h \in Handlers :
             ListQueryFailsNow(h) =>
                 /\ handlers[h].authorized
                 /\ handlers'[h].out = Append(handlers[h].out, FetchError(h))
                 /\ sending' = sending \cup
                        {[h |-> h, n |-> Len(handlers'[h].out),
                          chatId |-> handlers[h].chatId, text |-> FetchError(h),
                          tracked |-> TRUE]}
                 /\ handlers'[h].pc =
                        (IF handlers[h].pc = "appsQuery" /\ handlers[h].text = BTN_ALL
                         THEN "afterApplications" ELSE "done")
                 /\ authorizedUsers' = authorizedUsers
                 /\ chatMessages' = chatMessages
      ]_vars

\* 'show all' with both list queries failing: both "could not fetch"
\* messages were sent around the separator, and the first has been delivered
C18_Witness ==
    \E h \in Handlers :
        /\ handlers[h].text = BTN_ALL
        /\ handlers[h].replies = <<"error", "error">>
        /\ handlers[h].out = <<MSG_APPS_ERROR, MSG_SEPARATOR, MSG_CBS_ERROR>>
        /\ handlers[h].pc = "done"
        /\ \E i \in 1..Len(delivered) :
               /\ delivered[i].h = h
               /\ delivered[i].text = MSG_APPS_ERROR
               /\ delivered[i].chatId = handlers[h].chatId

\* the ids of the notification messages the gateway has delivered
NotificationIds ==
    {i \in 1..Len(delivered) : handlers[delivered[i].h].kind \in Endpoints}

\* a notification handler is dispatched, or its send settles, in this step
NotificationStepsNow ==
    \/ /\ Len(handlers') = Len(handlers) + 1
       /\ handlers'[Len(handlers')].kind \in Endpoints
    \/ \E s \in sending :
           /\ handlers[s.h].kind \in Endpoints
           /\ s \notin sending'

\* C19: a step of a notification (its handler, and its send settling with
\* either outcome) leaves every tracked list, every delete request and the
\* authorized set as they were; the id of a notification message is in no
\* tracked list and no delete request has ever been issued for it, so it
\* stays in the chat.
C19_NotificationsUntracked ==
    [][/\ NotificationStepsNow =>
             /\ chatMessages' = chatMessages
             /\ deleteLog' = deleteLog
             /\ deleting' = deleting
             /\ authorizedUsers' = authorizedUsers
       /\ \A i \in NotificationIds' :
             /\ ~delivered'[i].tracked
             /\ \A c \in Chats : i \notin Range(MapGet(c)')
             /\ i \notin DeleteRequested'
             /\ i \in visible'
      ]_vars

\* a notification was delivered to the admin chat while that chat had a
\* tracked message, and a later clear of the chat has deleted the tracked
\* message and completed: the notification is still there
C19_Witness ==
    \E i \in NotificationIds : \E h \in ClearsOf(adminChatId) :
        /\ delivered[i].chatId = adminChatId
        /\ handlers[h].event > handlers[delivered[i].h].event
        /\ \E j \in DeletesOf(h) : j < i /\ j \notin visible
        /\ handlers[h].pc = "done"
        /\ i \in visible

\* the ids of the tracked messages delivered to chat c
TrackedIds(c) ==
    {i \in 1..Len(delivered) : delivered[i].tracked /\ delivered[i].chatId = c}

\* no clear of chat c has overlapped a send to c: every clear of c found the
\* list empty and belongs to the first event of c, so it had completed
\* before the first send to c was issued
NoClearOverlap(c) ==
    \A h \in ClearsOf(c) :
        /\ handlers[h].messageIds = <<>>
        /\ \A k \in Handlers :
               handlers[k].chatId = c => handlers[k].event >= handlers[h].event

\* the list of chat c holds each id once
NoDuplicate(c) ==
    \A p, q \in 1..Len(MapGet(c)) : MapGet(c)[p] = MapGet(c)[q] => p = q

\* C20: a tracked send that completes appends its own new id to its chat's
\* list and keeps every id that was there, whatever else is in flight; a
\* tracked send that fails changes no list; so for a chat whose sends no
\* clear has overlapped, the list holds the id of every tracked message
\* delivered to it, each once, and nothing else, in every order of
\* completion.
C20_NoLostAppend ==
    [][/\ \A s \in sending :
             (s.tracked /\ delivered' = Append(delivered, s)) =>
                 /\ MapGet(s.chatId)' = Append(MapGet(s.chatId), Len(delivered'))
                 /\ Len(delivered') \notin Range(MapGet(s.chatId))
                 /\ \A c \in Chats \ {s.chatId} : MapGet(c)' = MapGet(c)
       /\ \A s \in sending :
             TrackedSendFailsNow(s) => chatMessages' = chatMessages
       /\ \A c \in Chats :
             /\ NoDuplicate(c)'
             /\ Range(MapGet(c))' \subseteq TrackedIds(c)'
             /\ NoClearOverlap(c)' => Range(MapGet(c))' = TrackedIds(c)'
      ]_vars

\* 'show all': the table and the separator were in flight together and the
\* separator completed first, the call-backs message failed; the list holds
\* the two delivered ids and only them
C20_Witness ==
    \E h \in Handlers : \E i, j \in 1..Len(delivered) :
        /\ handlers[h].text = BTN_ALL
        /\ NoClearOverlap(handlers[h].chatId)
        /\ Len(handlers[h].out) = 3
        /\ handlers[h].pc = "done"
        /\ \A s \in sending : s.h # h
        /\ delivered[i].h = h /\ delivered[i].n = 2
        /\ delivered[j].h = h /\ delivered[j].n = 1
        /\ i < j
        /\ MapGet(handlers[h].chatId) = <<i, j>>

\* the indices a handler can have in a run of MaxLiveEvents events: an
\* update is dispatched to two listeners at most
LiveHandlers == 1..(2 * MaxLiveEvents)

\* handler h has returned, with or without a rejection
Completed(h) ==
    /\ h \in Handlers
    /\ handlers[h].pc \in {"done", "rejected", "uncaught"}

\* C21 as stated: for every chat c, if every call made by the handlers of c
\* eventually returns to the process (with success or failure), then every
\* handler of c (of a /start command, a text message, a copy callback, or,
\* for the admin chat, a notification) eventually returns, whatever happens
\* to the calls and the handlers of the other chats.
C21_HandlersComplete ==
    \A c \in LiveChats :
        WF_vars(Returns(c)) =>
            \A h \in LiveHandlers :
                []((h \in Handlers /\ handlers[h].chatId = c) => <>Completed(h))

====
